---- MODULE Spec2Model ----
(***************************************************************************)
(* Model of backend/app/client_service.py: the client/service registry of  *)
(* fast-sso.  Strings are sequences of characters, byte strings are        *)
(* sequences of small integers, the service collection is the sequence of  *)
(* its documents in insertion (natural) order.                             *)
(***************************************************************************)
EXTENDS Integers, Sequences, FiniteSets, TLC

VARIABLES docs, sso_users, req, last

vars == <<docs, sso_users, req, last>>

----------------------------------------------------------------------------
(* Bounds of the model *)

MaxDocs == 2
MaxCollisions == 2
NumWorkers == 2

----------------------------------------------------------------------------
(* Small value universes *)

Bytes == 0 .. 3
Mod == Cardinality(Bytes)
BadChar == Mod
TokChars == Bytes \cup {BadChar}
BlockSize == Mod \div 2

NoVal == "<absent>"
NoFlag == -1

Range(s) == {s[i] : i \in DOMAIN s}

RECURSIVE SumSeq(_)
SumSeq(s) == IF s = <<>> THEN 0 ELSE s[1] + SumSeq(Tail(s))

RECURSIVE Flatten(_)
Flatten(ss) == IF ss = <<>> THEN <<>> ELSE ss[1] \o Flatten(Tail(ss))

Keys == {<<"a">>, <<"b">>, <<"a", "b">>}
OtherTexts == {<<>>, <<"e'">>, <<"e'", "a">>}
Secrets == {"s1"}
Times == {1, 2}
IVs == {0, 1}
ServiceNames == {"n1"}
ServiceDomains == {"d1"}
ServiceUris == {"u1"}
GenEmails == {<<"A">>, <<"a">>}
ListEmails == GenEmails \cup {<<"b">>, <<"c">>, <<"d">>}

----------------------------------------------------------------------------
(* str.encode("utf-8") / bytes.decode("utf-8"): ASCII characters are one   *)
(* byte, a non-ASCII character is a lead byte and a continuation byte.     *)

LeadByte == Mod - 2
ContByte == Mod - 1

Utf8Char(c) == CASE c = "a" -> <<0>>
                 [] c = "b" -> <<1>>
                 [] OTHER   -> <<LeadByte, ContByte>>

Utf8Encode(s) == Flatten([i \in DOMAIN s |-> Utf8Char(s[i])])

RECURSIVE Utf8Decode(_)
Utf8Decode(b) ==
    IF b = <<>> THEN [ok |-> TRUE, val |-> <<>>]
    ELSE IF b[1] = 0 \/ b[1] = 1
         THEN LET r == Utf8Decode(Tail(b))
              IN  [ok |-> r.ok, val |-> <<(IF b[1] = 0 THEN "a" ELSE "b")>> \o r.val]
         ELSE IF b[1] = LeadByte /\ Len(b) >= 2 /\ b[2] = ContByte
              THEN LET r == Utf8Decode(Tail(Tail(b)))
                   IN  [ok |-> r.ok, val |-> <<"e'">> \o r.val]
              ELSE [ok |-> FALSE, val |-> <<>>]

----------------------------------------------------------------------------
(* cryptography.fernet.Fernet as the source uses it: a token is            *)
(*   version || timestamp || iv || ciphertext || hmac                      *)
(* in a text-safe alphabet; the ciphertext is the PKCS7-padded plaintext   *)
(* under a chained block cipher; the hmac covers everything before it.     *)

FernetVersion == Mod - 1
ENCRYPTION_KEY == [sign |-> 1, enc |-> 2]
ForeignKey == [sign |-> 3, enc |-> 1]

Pkcs7Pad(b) == LET n == BlockSize - (Len(b) % BlockSize)
               IN  b \o [i \in 1 .. n |-> n]

Pkcs7Unpad(b) ==
    IF b = <<>> THEN [ok |-> FALSE, val |-> <<>>]
    ELSE LET n == b[Len(b)]
         IN  IF n >= 1 /\ n <= BlockSize /\ n <= Len(b)
                /\ \A i \in (Len(b) - n + 1) .. Len(b) : b[i] = n
             THEN [ok |-> TRUE, val |-> SubSeq(b, 1, Len(b) - n)]
             ELSE [ok |-> FALSE, val |-> <<>>]

RECURSIVE CbcEncrypt(_, _, _)
CbcEncrypt(k, prev, p) ==
    IF p = <<>> THEN <<>>
    ELSE LET c == (p[1] + k + prev) % Mod
         IN  <<c>> \o CbcEncrypt(k, c, Tail(p))

RECURSIVE CbcDecrypt(_, _, _)
CbcDecrypt(k, prev, c) ==
    IF c = <<>> THEN <<>>
    ELSE <<(c[1] - k - prev) % Mod>> \o CbcDecrypt(k, c[1], Tail(c))

Hmac(k, b) == (k + SumSeq(b)) % Mod

FernetEncrypt(key, data, iv, t) ==
    LET body == <<FernetVersion, t, iv>> \o CbcEncrypt(key.enc, iv, Pkcs7Pad(data))
    IN  body \o <<Hmac(key.sign, body)>>

FernetDecrypt(key, tok) ==
    LET bad == [ok |-> FALSE, val |-> <<>>]
    IN  IF \E i \in DOMAIN tok : tok[i] \notin Bytes THEN bad
        ELSE IF Len(tok) < 4 \/ tok[1] # FernetVersion THEN bad
        ELSE LET body == SubSeq(tok, 1, Len(tok) - 1)
                 ct   == SubSeq(tok, 4, Len(tok) - 1)
             IN  IF Hmac(key.sign, body) # tok[Len(tok)] THEN bad
                 ELSE IF ct = <<>> \/ Len(ct) % BlockSize # 0 THEN bad
                 ELSE Pkcs7Unpad(CbcDecrypt(key.enc, tok[3], ct))

cipher_suite == ENCRYPTION_KEY

encrypt_app_key(app_key, iv, t) == FernetEncrypt(cipher_suite, Utf8Encode(app_key), iv, t)

decrypt_app_key_ForeignKey(encrypted_key) ==
    LET d == FernetDecrypt(ForeignKey, encrypted_key)
    IN  IF ~d.ok THEN [ok |-> FALSE, exc |-> "InvalidToken", val |-> <<>>]
        ELSE LET s == Utf8Decode(d.val)
             IN  IF s.ok THEN [ok |-> TRUE, exc |-> "", val |-> s.val]
                 ELSE [ok |-> FALSE, exc |-> "UnicodeDecodeError", val |-> <<>>]

decrypt_app_key(encrypted_key) ==
    LET d == FernetDecrypt(cipher_suite, encrypted_key)
    IN  IF ~d.ok THEN [ok |-> FALSE, exc |-> "InvalidToken", val |-> <<>>]
        ELSE LET s == Utf8Decode(d.val)
             IN  IF s.ok THEN [ok |-> TRUE, exc |-> "", val |-> s.val]
                 ELSE [ok |-> FALSE, exc |-> "UnicodeDecodeError", val |-> <<>>]

----------------------------------------------------------------------------
(* State *)

Workers == 1 .. NumWorkers

LowerChar(c) == CASE c = "A" -> "a"
                  [] c = "B" -> "b"
                  [] OTHER   -> c

Lower(e) == [i \in DOMAIN e |-> LowerChar(e[i])]

Doc(email, key, secret, t) ==
    [client_email |-> email, app_key |-> key, app_secret |-> secret,
     created_at |-> t, service_name |-> NoVal, service_domain |-> NoVal,
     service_uri |-> NoVal, is_approved |-> NoFlag]

IdleReq == [pc |-> "idle", email |-> <<>>, cand |-> <<>>, ncand |-> 0,
            nchecks |-> 0, nins |-> 0, rejected |-> <<>>]

NoResp == [op |-> "", email |-> <<>>, key |-> <<>>, token |-> <<>>,
           status |-> 0, detail |-> "", services |-> <<>>, data |-> <<>>,
           text |-> <<>>, token_out |-> <<>>, exc |-> "",
           app_secret |-> NoVal, created_at |-> NoFlag,
           roleChecked |-> FALSE, touched |-> FALSE,
           ncand |-> 0, nchecks |-> 0, nins |-> 0, rejected |-> <<>>]

Init ==
    /\ docs = <<>>
    /\ sso_users = (<<"a">> :> "CL-USER" @@ <<"b">> :> "ADMIN-USER"
                    @@ <<"c">> :> "SSO-USER" @@ <<"d">> :> NoVal)
    /\ req = [p \in Workers |-> IdleReq]
    /\ last = NoResp

----------------------------------------------------------------------------
(* Collection operations of the storage driver *)

(* update_one and find_one act on the first match in natural order *)
FirstMatch(m) == CHOOSE i \in m : \A j \in m : i <= j

MatchPair(client_email, app_key) ==
    {i \in DOMAIN docs : docs[i].client_email = client_email /\ docs[i].app_key = app_key}

MatchKey(app_key) == {i \in DOMAIN docs : docs[i].app_key = app_key}

ListProjection(d, tok) ==
    [service_domain |-> d.service_domain, service_name |-> d.service_name,
     app_key |-> d.app_key, service_uri |-> d.service_uri,
     created_at |-> d.created_at, app_secret |-> NoVal, enc_app_key |-> tok]

FetchProjection(d) ==
    [service_domain |-> d.service_domain, service_name |-> d.service_name,
     app_key |-> d.app_key, service_uri |-> d.service_uri,
     created_at |-> d.created_at, app_secret |-> d.app_secret, enc_app_key |-> <<>>]

----------------------------------------------------------------------------
(* POST /encrypt_clientid and POST /decrypt_clientid *)

encrypt_clientid(app_key) ==
    /\ \E iv \in IVs, t \in Times :
         last' = [NoResp EXCEPT !.op = "encrypt_clientid", !.key = app_key,
                                !.status = 200,
                                !.token_out = encrypt_app_key(app_key, iv, t)]
    /\ UNCHANGED <<docs, sso_users, req>>

decrypt_clientid(encrypted_key) ==
    /\ LET r == decrypt_app_key(encrypted_key)
       IN  last' = IF r.ok
                   THEN [NoResp EXCEPT !.op = "decrypt_clientid", !.token = encrypted_key,
                                       !.status = 200, !.text = r.val]
                   ELSE [NoResp EXCEPT !.op = "decrypt_clientid", !.token = encrypted_key,
                                       !.status = 500, !.detail = "Internal Server Error",
                                       !.exc = r.exc]
    /\ UNCHANGED <<docs, sso_users, req>>

----------------------------------------------------------------------------
(* POST /get_service_list *)

(* Variant: the CL-USER query filters on the e-mail as sent. *)
get_service_list_RawEmail(client_email) ==
    /\ LET requested_email == Lower(client_email)
           user_role == sso_users[requested_email]
           base == [NoResp EXCEPT !.op = "get_service_list", !.email = client_email,
                                  !.roleChecked = TRUE]
           MineOnly(d) == d.client_email = client_email
           All(d) == TRUE
           services == IF user_role = "CL-USER" THEN SelectSeq(docs, MineOnly)
                       ELSE SelectSeq(docs, All)
       IN  IF requested_email = <<>>
           THEN last' = [base EXCEPT !.status = 400, !.detail = "Client's email is required",
                                     !.roleChecked = FALSE]
           ELSE IF user_role = NoVal
           THEN last' = [base EXCEPT !.status = 400,
                                     !.detail = "User not found in User Collection"]
           ELSE IF user_role \notin {"CL-USER", "ADMIN-USER"}
           THEN last' = [base EXCEPT !.status = 403, !.detail = "Unauthorized role"]
           ELSE IF services = <<>>
           THEN last' = [base EXCEPT !.status = 404, !.detail = "Service not found!",
                                     !.touched = TRUE]
           ELSE \E ivs \in [DOMAIN services -> IVs], t \in Times :
                  last' = [base EXCEPT
                             !.status = 200, !.detail = "Service found", !.touched = TRUE,
                             !.services =
                                [i \in DOMAIN services |->
                                   ListProjection(services[i],
                                      encrypt_app_key(services[i].app_key, ivs[i], t))]]
    /\ UNCHANGED <<docs, sso_users, req>>

get_service_list(client_email) ==
    /\ LET requested_email == Lower(client_email)
           user_role == sso_users[requested_email]
           base == [NoResp EXCEPT !.op = "get_service_list", !.email = client_email,
                                  !.roleChecked = TRUE]
           MineOnly(d) == d.client_email = requested_email
           All(d) == TRUE
           services == IF user_role = "CL-USER" THEN SelectSeq(docs, MineOnly)
                       ELSE SelectSeq(docs, All)
       IN  IF requested_email = <<>>
           THEN last' = [base EXCEPT !.status = 400, !.detail = "Client's email is required",
                                     !.roleChecked = FALSE]
           ELSE IF user_role = NoVal
           THEN last' = [base EXCEPT !.status = 400,
                                     !.detail = "User not found in User Collection"]
           ELSE IF user_role \notin {"CL-USER", "ADMIN-USER"}
           THEN last' = [base EXCEPT !.status = 403, !.detail = "Unauthorized role"]
           ELSE IF services = <<>>
           THEN last' = [base EXCEPT !.status = 404, !.detail = "Service not found!",
                                     !.touched = TRUE]
           ELSE \E ivs \in [DOMAIN services -> IVs], t \in Times :
                  last' = [base EXCEPT
                             !.status = 200, !.detail = "Service found", !.touched = TRUE,
                             !.services =
                                [i \in DOMAIN services |->
                                   ListProjection(services[i],
                                      encrypt_app_key(services[i].app_key, ivs[i], t))]]
    /\ UNCHANGED <<docs, sso_users, req>>

----------------------------------------------------------------------------
(* POST /add_service *)

(* Variant: the update replaces the document instead of using $set. *)
add_client_service_Replace(client_email, app_key, service_name, service_domain, service_uri) ==
    LET base == [NoResp EXCEPT !.op = "add_service", !.email = client_email, !.key = app_key]
        m == MatchPair(client_email, app_key)
        i == FirstMatch(m)
        updated == [Doc(<<>>, <<>>, NoVal, NoFlag) EXCEPT
                                   !.service_name = service_name,
                                   !.service_domain = service_domain,
                                   !.service_uri = service_uri,
                                   !.is_approved = 0]
    IN  /\ IF client_email = <<>>
           THEN /\ last' = [base EXCEPT !.status = 400, !.detail = "Client's email is required"]
                /\ docs' = docs
           ELSE IF app_key = <<>>
           THEN /\ last' = [base EXCEPT !.status = 400, !.detail = "App Key is required"]
                /\ docs' = docs
           ELSE IF service_name = ""
           THEN /\ last' = [base EXCEPT !.status = 400, !.detail = "Service name is required"]
                /\ docs' = docs
           ELSE IF service_domain = ""
           THEN /\ last' = [base EXCEPT !.status = 400, !.detail = "Service domain required"]
                /\ docs' = docs
           ELSE IF service_uri = ""
           THEN /\ last' = [base EXCEPT !.status = 400, !.detail = "Redirect URI is required"]
                /\ docs' = docs
           ELSE IF m = {} \/ updated = docs[i]
           THEN /\ last' = [base EXCEPT !.status = 400, !.detail = "No changes were made",
                                        !.touched = TRUE]
                /\ docs' = docs
           ELSE /\ last' = [base EXCEPT !.status = 200,
                                        !.detail = "Service registered successfully",
                                        !.touched = TRUE]
                /\ docs' = [docs EXCEPT ![i] = updated]
        /\ UNCHANGED <<sso_users, req>>

(* Variant: the update leaves is_approved as it is. *)
add_client_service_KeepFlag(client_email, app_key, service_name, service_domain, service_uri) ==
    LET base == [NoResp EXCEPT !.op = "add_service", !.email = client_email, !.key = app_key]
        m == MatchPair(client_email, app_key)
        i == FirstMatch(m)
        updated == [docs[i] EXCEPT !.service_name = service_name,
                                   !.service_domain = service_domain,
                                   !.service_uri = service_uri]
    IN  /\ IF client_email = <<>>
           THEN /\ last' = [base EXCEPT !.status = 400, !.detail = "Client's email is required"]
                /\ docs' = docs
           ELSE IF app_key = <<>>
           THEN /\ last' = [base EXCEPT !.status = 400, !.detail = "App Key is required"]
                /\ docs' = docs
           ELSE IF service_name = ""
           THEN /\ last' = [base EXCEPT !.status = 400, !.detail = "Service name is required"]
                /\ docs' = docs
           ELSE IF service_domain = ""
           THEN /\ last' = [base EXCEPT !.status = 400, !.detail = "Service domain required"]
                /\ docs' = docs
           ELSE IF service_uri = ""
           THEN /\ last' = [base EXCEPT !.status = 400, !.detail = "Redirect URI is required"]
                /\ docs' = docs
           ELSE IF m = {} \/ updated = docs[i]
           THEN /\ last' = [base EXCEPT !.status = 400, !.detail = "No changes were made",
                                        !.touched = TRUE]
                /\ docs' = docs
           ELSE /\ last' = [base EXCEPT !.status = 200,
                                        !.detail = "Service registered successfully",
                                        !.touched = TRUE]
                /\ docs' = [docs EXCEPT ![i] = updated]
        /\ UNCHANGED <<sso_users, req>>

add_client_service(client_email, app_key, service_name, service_domain, service_uri) ==
    LET base == [NoResp EXCEPT !.op = "add_service", !.email = client_email, !.key = app_key]
        m == MatchPair(client_email, app_key)
        i == FirstMatch(m)
        updated == [docs[i] EXCEPT !.service_name = service_name,
                                   !.service_domain = service_domain,
                                   !.service_uri = service_uri,
                                   !.is_approved = 0]
    IN  /\ IF client_email = <<>>
           THEN /\ last' = [base EXCEPT !.status = 400, !.detail = "Client's email is required"]
                /\ docs' = docs
           ELSE IF app_key = <<>>
           THEN /\ last' = [base EXCEPT !.status = 400, !.detail = "App Key is required"]
                /\ docs' = docs
           ELSE IF service_name = ""
           THEN /\ last' = [base EXCEPT !.status = 400, !.detail = "Service name is required"]
                /\ docs' = docs
           ELSE IF service_domain = ""
           THEN /\ last' = [base EXCEPT !.status = 400, !.detail = "Service domain required"]
                /\ docs' = docs
           ELSE IF service_uri = ""
           THEN /\ last' = [base EXCEPT !.status = 400, !.detail = "Redirect URI is required"]
                /\ docs' = docs
           ELSE IF m = {} \/ updated = docs[i]
           THEN /\ last' = [base EXCEPT !.status = 400, !.detail = "No changes were made",
                                        !.touched = TRUE]
                /\ docs' = docs
           ELSE /\ last' = [base EXCEPT !.status = 200,
                                        !.detail = "Service registered successfully",
                                        !.touched = TRUE]
                /\ docs' = [docs EXCEPT ![i] = updated]
        /\ UNCHANGED <<sso_users, req>>

----------------------------------------------------------------------------
(* POST /approve_service *)

approve_service_key(client_email, client_id) ==
    LET base == [NoResp EXCEPT !.op = "approve_service", !.email = client_email,
                               !.key = client_id]
        m == MatchPair(client_email, client_id)
        i == FirstMatch(m)
        updated == [docs[i] EXCEPT !.is_approved = 1]
    IN  /\ IF client_email = <<>>
           THEN /\ last' = [base EXCEPT !.status = 400, !.detail = "Client's email is required"]
                /\ docs' = docs
           ELSE IF client_id = <<>>
           THEN /\ last' = [base EXCEPT !.status = 400, !.detail = "App Key is required"]
                /\ docs' = docs
           ELSE IF m = {}
           THEN /\ last' = [base EXCEPT
                              !.status = 400, !.touched = TRUE,
                              !.detail = "The provided Client ID is not associated with requested email"]
                /\ docs' = docs
           ELSE IF updated = docs[i]
           THEN /\ last' = [base EXCEPT !.status = 400, !.detail = "No changes were made",
                                        !.touched = TRUE]
                /\ docs' = docs
           ELSE /\ last' = [base EXCEPT !.status = 200,
                                        !.detail = "Service Approved successfully",
                                        !.touched = TRUE]
                /\ docs' = [docs EXCEPT ![i] = updated]
        /\ UNCHANGED <<sso_users, req>>

----------------------------------------------------------------------------
(* POST /fetch_client *)

fetch_client_detail(client_id) ==
    /\ LET base == [NoResp EXCEPT !.op = "fetch_client", !.token = client_id]
           r == decrypt_app_key(client_id)
           m == MatchKey(r.val)
       IN  IF client_id = <<>>
           THEN last' = [base EXCEPT !.status = 400, !.detail = "Client ID is required"]
           ELSE IF ~r.ok
           THEN last' = [base EXCEPT !.status = 500, !.detail = "Internal Server Error",
                                     !.exc = r.exc]
           ELSE IF m = {}
           THEN last' = [base EXCEPT !.status = 404, !.detail = "Service not found!",
                                     !.touched = TRUE, !.text = r.val]
           ELSE last' = [base EXCEPT !.status = 200, !.detail = "Service found",
                                     !.touched = TRUE, !.text = r.val,
                                     !.data = <<FetchProjection(docs[FirstMatch(m)])>>]
    /\ UNCHANGED <<docs, sso_users, req>>

----------------------------------------------------------------------------
(* POST /generate_client, one step per round trip to the service           *)
(* collection: the candidate computation, find_one, insert_one.            *)

InFlight == Cardinality({p \in Workers : req[p].pc # "idle"})

GenBegin(p, client_email) ==
    /\ req[p].pc = "idle"
    /\ Len(docs) + InFlight < MaxDocs
    /\ IF client_email = <<>>
       THEN /\ last' = [NoResp EXCEPT !.op = "generate_client", !.email = client_email,
                                      !.status = 400, !.detail = "Client email is required!"]
            /\ req' = req
       ELSE /\ \E app_key \in Keys :
                 req' = [req EXCEPT ![p] = [pc |-> "find", email |-> client_email,
                                            cand |-> app_key, ncand |-> 1,
                                            nchecks |-> 0, nins |-> 0,
                                            rejected |-> <<>>]]
            /\ last' = last
    /\ UNCHANGED <<docs, sso_users>>

(* Variant: the loop is left when the candidate exists. *)
GenFind_Inverted(p) ==
    /\ req[p].pc = "find"
    /\ LET r == req[p]
           existing_client == MatchKey(r.cand) # {}
       IN  IF ~existing_client
           THEN /\ r.ncand <= MaxCollisions
                /\ \E app_key \in Keys :
                     req' = [req EXCEPT ![p] = [r EXCEPT !.cand = app_key,
                                                         !.ncand = r.ncand + 1,
                                                         !.nchecks = r.nchecks + 1]]
           ELSE req' = [req EXCEPT ![p] = [r EXCEPT !.pc = "insert",
                                                    !.nchecks = r.nchecks + 1,
                                                    !.rejected = Append(r.rejected, r.cand)]]
    /\ UNCHANGED <<docs, sso_users, last>>

GenFind(p) ==
    /\ req[p].pc = "find"
    /\ LET r == req[p]
           existing_client == MatchKey(r.cand) # {}
       IN  IF existing_client
           THEN /\ Len(r.rejected) < MaxCollisions
                /\ \E app_key \in Keys :
                     req' = [req EXCEPT ![p] = [r EXCEPT !.cand = app_key,
                                                         !.ncand = r.ncand + 1,
                                                         !.nchecks = r.nchecks + 1,
                                                         !.rejected = Append(r.rejected, r.cand)]]
           ELSE req' = [req EXCEPT ![p] = [r EXCEPT !.pc = "insert",
                                                    !.nchecks = r.nchecks + 1]]
    /\ UNCHANGED <<docs, sso_users, last>>

GenResp(r) == [NoResp EXCEPT !.op = "generate_client", !.email = r.email,
                             !.ncand = r.ncand, !.nchecks = r.nchecks,
                             !.rejected = r.rejected, !.nins = r.nins + 1]

GenInsertOk(p) ==
    /\ req[p].pc = "insert"
    /\ \E app_secret \in Secrets, created_at \in Times :
         LET r == req[p]
         IN  /\ docs' = Append(docs, Doc(r.email, r.cand, app_secret, created_at))
             /\ last' = [GenResp(r) EXCEPT
                           !.status = 200,
                           !.detail = "Unique App Key generated and inserted successfully!",
                           !.touched = TRUE, !.key = r.cand,
                           !.app_secret = app_secret, !.created_at = created_at]
    /\ req' = [req EXCEPT ![p] = IdleReq]
    /\ UNCHANGED sso_users

(* Variant: a failed insert is attempted again. *)
GenInsertFail_Retry(p) ==
    /\ req[p].pc = "insert"
    /\ req[p].nins < MaxCollisions
    /\ last' = last
    /\ req' = [req EXCEPT ![p] = [req[p] EXCEPT !.nins = req[p].nins + 1]]
    /\ UNCHANGED <<docs, sso_users>>

GenInsertFail(p) ==
    /\ req[p].pc = "insert"
    /\ last' = [GenResp(req[p]) EXCEPT
                  !.status = 500, !.touched = TRUE,
                  !.detail = "Failed to insert data into the database"]
    /\ req' = [req EXCEPT ![p] = IdleReq]
    /\ UNCHANGED <<docs, sso_users>>

(* The handler run from its first line to its return: the loop ends with   *)
(* the first candidate that find_one does not report.                      *)
generate_client_id(client_email) ==
    /\ Len(docs) < MaxDocs
    /\ LET base == [NoResp EXCEPT !.op = "generate_client", !.email = client_email]
       IN  IF client_email = <<>>
           THEN /\ last' = [base EXCEPT !.status = 400, !.detail = "Client email is required!"]
                /\ docs' = docs
           ELSE \E app_key \in Keys, app_secret \in Secrets, created_at \in Times :
                  /\ MatchKey(app_key) = {}
                  /\ \/ /\ docs' = Append(docs, Doc(client_email, app_key, app_secret, created_at))
                        /\ last' = [base EXCEPT
                                      !.status = 200, !.touched = TRUE, !.nins = 1,
                                      !.detail = "Unique App Key generated and inserted successfully!",
                                      !.key = app_key, !.app_secret = app_secret,
                                      !.created_at = created_at]
                     \/ /\ docs' = docs
                        /\ last' = [base EXCEPT
                                      !.status = 500, !.touched = TRUE, !.nins = 1,
                                      !.detail = "Failed to insert data into the database"]
    /\ UNCHANGED <<sso_users, req>>

----------------------------------------------------------------------------
(* Requests *)

Texts == Keys \cup OtherTexts

TokensOf(key, X) ==
    {FernetEncrypt(key, Utf8Encode(x), iv, t) : x \in X, iv \in IVs, t \in Times}

Flips(T) ==
    UNION {{[tok EXCEPT ![i] = c] : i \in DOMAIN tok, c \in TokChars} \ {tok} : tok \in T}

Truncations(T) ==
    UNION {{SubSeq(tok, 1, n) : n \in 0 .. (Len(tok) - 1)} : tok \in T}

CodecTokens ==
    LET V == TokensOf(ENCRYPTION_KEY, Texts)
    IN  V \cup Flips(V) \cup Truncations(V) \cup TokensOf(ForeignKey, Texts)

BaseToken == FernetEncrypt(ENCRYPTION_KEY, Utf8Encode(<<"a">>), 0, 1)

FetchTokens ==
    TokensOf(ENCRYPTION_KEY, Keys) \cup
    {[BaseToken EXCEPT ![i] = (BaseToken[i] + 1) % (Mod + 1)] : i \in DOMAIN BaseToken} \cup
    {<<>>, SubSeq(BaseToken, 1, 3), FernetEncrypt(ForeignKey, Utf8Encode(<<"a">>), 0, 1),
     FernetEncrypt(ENCRYPTION_KEY, Utf8Encode(<<"e'">>), 0, 1)}

(* The response of a finished request is handed to its caller. *)
Respond ==
    /\ last # NoResp
    /\ last' = NoResp
    /\ UNCHANGED <<docs, sso_users, req>>

(* Requests handled one after the other: every handler runs to its end. *)
Next ==
    \/ last = NoResp /\ \E e \in ListEmails : get_service_list(e)
    \/ last = NoResp /\ \E e \in GenEmails, k \in Keys \cup {<<>>}, n \in ServiceNames,
          d \in ServiceDomains, u \in ServiceUris : add_client_service(e, k, n, d, u)
    \/ last = NoResp /\ \E e \in GenEmails, k \in Keys \cup {<<>>} : approve_service_key(e, k)
    \/ last = NoResp /\ \E tok \in FetchTokens : fetch_client_detail(tok)
    \/ last = NoResp /\ \E e \in GenEmails : generate_client_id(e)
    \/ Respond

Spec == Init /\ [][Next]_vars

(* generate_client requests in flight on several workers, interleaved at   *)
(* their calls to the service collection.                                  *)
NextGen ==
    \/ \E p \in Workers, e \in GenEmails : GenBegin(p, e)
    \/ \E p \in Workers : GenFind(p)
    \/ last = NoResp /\ \E p \in Workers : GenInsertOk(p)
    \/ last = NoResp /\ \E p \in Workers : GenInsertFail(p)
    \/ Respond

SpecGen == Init /\ [][NextGen]_vars

NextCodec ==
    \/ \E x \in Texts : encrypt_clientid(x)
    \/ \E tok \in CodecTokens : decrypt_clientid(tok)

SpecCodec == Init /\ [][NextCodec]_vars

----------------------------------------------------------------------------
(* Properties *)

Role(e) == sso_users[Lower(e)]

(* C1: no two persisted documents of the service collection have the same  *)
(* app_key, whatever the interleaving of generate_client requests.         *)
C1_UniqueAppKeys ==
    \A i, j \in DOMAIN docs : i # j => docs[i].app_key # docs[j].app_key

(* C2: a generate_client request whose first N candidates were reported as *)
(* existing has computed N+1 candidates and made N+1 existence checks when *)
(* it leaves the loop, inserts the last candidate, and never inserts a     *)
(* candidate that was reported as existing.                                *)
C2_LoopCount ==
    /\ \A p \in Workers :
         LET r == req[p]
         IN  /\ r.pc = "find" => /\ r.ncand = Len(r.rejected) + 1
                                 /\ r.nchecks = Len(r.rejected)
             /\ r.pc = "insert" => /\ r.ncand = Len(r.rejected) + 1
                                   /\ r.nchecks = Len(r.rejected) + 1
                                   /\ r.cand \notin Range(r.rejected)
    /\ (last.op = "generate_client" /\ last.status = 200) =>
          /\ last.ncand = Len(last.rejected) + 1
          /\ last.nchecks = Len(last.rejected) + 1
          /\ last.key \notin Range(last.rejected)
          /\ docs # <<>>
          /\ docs[Len(docs)].app_key = last.key

C2_Witness ==
    /\ last.op = "generate_client"
    /\ last.status = 200
    /\ Len(last.rejected) = MaxCollisions
    /\ last.ncand = MaxCollisions + 1

(* C3: a token returned by encrypt_app_key for x decrypts to x under the   *)
(* process key, whichever iv and timestamp the token was made with.        *)
C3_RoundTrip ==
    \A x \in Texts, iv \in IVs, t \in Times :
        (last.op = "decrypt_clientid" /\ last.token = encrypt_app_key(x, iv, t))
            => (last.status = 200 /\ last.text = x)

C3_Witness ==
    /\ last.op = "decrypt_clientid"
    /\ last.status = 200
    /\ last.text = <<"e'", "a">>
    /\ last.token = encrypt_app_key(<<"e'", "a">>, 1, 2)
    /\ last.token # encrypt_app_key(<<"e'", "a">>, 0, 1)

(* C4: a token that does not verify under the process key is answered by   *)
(* fetch_client without a lookup and without data, as a client error that  *)
(* is neither the 404 of an unknown client id nor a server-side failure.   *)
C4_InvalidTokenSurfaced ==
    (/\ last.op = "fetch_client"
     /\ last.token # <<>>
     /\ ~FernetDecrypt(ENCRYPTION_KEY, last.token).ok)
        => /\ ~last.touched
           /\ last.data = <<>>
           /\ last.text = <<>>
           /\ last.exc = "InvalidToken"
           /\ last.status \in 400 .. 499
           /\ last.status # 404

C6_CredentialImmutable ==
    [][\A i \in DOMAIN docs :
          /\ i \in DOMAIN docs'
          /\ docs'[i].app_key = docs[i].app_key
          /\ docs'[i].app_secret = docs[i].app_secret
          /\ docs'[i].created_at = docs[i].created_at]_vars

C6_Witness ==
    /\ Len(docs) = MaxDocs
    /\ docs[1].service_name # NoVal
    /\ docs[1].is_approved = 1
    /\ docs[1].app_secret \in Secrets
    /\ docs[1].created_at \in Times
    /\ last.op = "fetch_client"
    /\ last.status = 200

(* C7: an endpoint reads or writes the service collection only after it    *)
(* looked up the caller's role.                                            *)
C7_RoleGuard == last.touched => last.roleChecked

(* C8: get_service_list returns to a CL-USER exactly the documents whose   *)
(* client_email is the lower-cased requested e-mail, to an ADMIN-USER all  *)
(* documents, 403 to another role, 400 to an unknown user, 404 when there  *)
(* is nothing to return; no service carries app_secret and every           *)
(* enc_app_key decrypts to the service's app_key.                          *)
Visible(e) ==
    IF Role(e) = "CL-USER" THEN {i \in DOMAIN docs : docs[i].client_email = Lower(e)}
    ELSE IF Role(e) = "ADMIN-USER" THEN DOMAIN docs
    ELSE {}

Nth(S, n) == CHOOSE i \in S : Cardinality({j \in S : j <= i}) = n

C8_ListVisibility ==
    last.op = "get_service_list" =>
       LET e == last.email
           V == Visible(e)
       IN  /\ Role(e) = NoVal => (last.status = 400 /\ last.services = <<>>)
           /\ Role(e) \notin {NoVal, "CL-USER", "ADMIN-USER"}
                 => (last.status = 403 /\ last.services = <<>>)
           /\ (Role(e) \in {"CL-USER", "ADMIN-USER"} /\ V = {})
                 => (last.status = 404 /\ last.services = <<>>)
           /\ (Role(e) \in {"CL-USER", "ADMIN-USER"} /\ V # {})
                 => /\ last.status = 200
                    /\ Len(last.services) = Cardinality(V)
                    /\ \A n \in DOMAIN last.services :
                         LET s == last.services[n]
                             d == docs[Nth(V, n)]
                         IN  /\ s.app_key = d.app_key
                             /\ s.created_at = d.created_at
                             /\ s.service_name = d.service_name
                             /\ s.service_domain = d.service_domain
                             /\ s.service_uri = d.service_uri
                             /\ s.app_secret = NoVal
                             /\ decrypt_app_key(s.enc_app_key).ok
                             /\ decrypt_app_key(s.enc_app_key).val = d.app_key

C8_Witness ==
    /\ last.op = "get_service_list"
    /\ last.email = <<"A">>
    /\ last.status = 200
    /\ Len(last.services) = 1
    /\ Len(docs) = MaxDocs
    /\ \E i \in DOMAIN docs : docs[i].client_email = <<"A">>

(* C9: a successful add_service leaves its document with is_approved = 0;  *)
(* is_approved becomes 1 only by a successful approve_service for the      *)
(* document's (client_email, app_key); neither endpoint adds or removes a  *)
(* document, and when either fails the collection is unchanged.            *)
C9_ApprovalLifecycle ==
    [][/\ \A i \in DOMAIN docs' :
            (docs'[i].is_approved = 1 /\ (i \notin DOMAIN docs \/ docs[i].is_approved # 1))
               => /\ last'.op = "approve_service"
                  /\ last'.status = 200
                  /\ last'.email = docs'[i].client_email
                  /\ last'.key = docs'[i].app_key
       /\ (last = NoResp /\ last'.op \in {"add_service", "approve_service"})
            => /\ Len(docs') = Len(docs)
               /\ last'.status # 200 => docs' = docs
               /\ last'.status = 200 =>
                    \E i \in DOMAIN docs :
                       /\ docs'[i] # docs[i]
                       /\ docs'[i].client_email = last'.email
                       /\ docs'[i].app_key = last'.key
                       /\ docs'[i].is_approved = (IF last'.op = "add_service" THEN 0 ELSE 1)
                       /\ \A j \in DOMAIN docs : j # i => docs'[j] = docs[j]]_vars

C9_Witness ==
    /\ last.op = "add_service"
    /\ last.status = 200
    /\ Len(docs) = MaxDocs
    /\ \E i, j \in DOMAIN docs :
          /\ docs[i].client_email = last.email
          /\ docs[i].app_key = last.key
          /\ docs[i].is_approved = 0
          /\ docs[j].is_approved = 1
          /\ docs[j].service_name # NoVal

(* C10: while the user record of e-mail e has role CL-USER, the app_key of *)
(* every credential issued by generate_client(e) is in the list that       *)
(* get_service_list(e) returns.                                            *)
C10_OwnerListsIssued ==
    (last.op = "get_service_list" /\ Role(last.email) = "CL-USER")
        => \A i \in DOMAIN docs :
              docs[i].client_email = last.email
                 => /\ last.status = 200
                    /\ \E n \in DOMAIN last.services :
                          last.services[n].app_key = docs[i].app_key

====
